---- MODULE Spec2Model ----
(***************************************************************************)
(* Event notification service: the processor Lambda                        *)
(* (lambdas/processor/index.js).  One handler invocation consumes a batch  *)
(* of SQS messages; for each message it stores the event, queries the      *)
(* subscriptions of the event's type, and for every subscription that      *)
(* meets the severity threshold sends an email or a webhook and records    *)
(* the attempt in the Notifications table.                                 *)
(*                                                                         *)
(* Every await of the source is one step of the model, and every call of   *)
(* an AWS client or of fetch may succeed or fail.  The variable trace is   *)
(* a history of the external calls the invocation has made.                *)
(*                                                                         *)
(* Around the processor: the ingest Lambda that validates a request and    *)
(* sends its message to the queue, the queue's redelivery and dead-letter  *)
(* policy (docs/aws-setup.md), a transport call that never completes, and  *)
(* a second invocation running at the same time.                           *)
(***************************************************************************)
EXTENDS Integers, Sequences, FiniteSets, TLC

VARIABLES
    subscriptionsTable, \* Subscriptions table: subscriptionId -> item
    eventsTable,        \* Events table: set of items, key eventId
    notificationsTable, \* Notifications table: set of items, key (eventId, subscriptionId)
    queue,              \* events-queue: the message bodies waiting for the processor
    records,            \* sqsEvent.Records of the running invocation (bodies)
    pos,                \* index in records of the message being processed
    pc,                 \* position of the handler
    event,              \* processEvent: the parsed event
    subscriptions,      \* processEvent: the result of findMatchingSubscriptions
    idx,                \* processEvent: index of the for-of loop in subscriptions
    notificationCount,  \* processEvent: let notificationCount
    notifyError,        \* processEvent: message of the error caught by the catch block
    outcome,            \* history: how the work on each message of the batch ended
    trace,              \* history: the external calls made, in order
    receiveCount,       \* events-queue: how many times the batch was received
    dlq,                \* events-dlq: the message bodies moved to the dead-letter queue
    attempts,           \* history: the outcome of each earlier invocation on the batch
    other,              \* the local state of a second, concurrent invocation
    request,            \* ingest: the API Gateway event being handled
    response,           \* ingest: the response returned for it
    ingestPc,           \* ingest: position of the ingest handler
    subscriptionCall    \* subscription: the request being handled, the position of
                        \* the subscription handler and the response returned

\* what the steps of a processor invocation leave alone
envVars == <<dlq, attempts, other, request, response, ingestPc, subscriptionCall>>

vars == <<subscriptionsTable, eventsTable, notificationsTable, queue, records, pos,
          pc, event, subscriptions, idx, notificationCount, notifyError, outcome, trace,
          receiveCount, envVars>>

----------------------------------------------------------------------------
(* Bounds of the model *)

\* number of items in the Subscriptions table
MaxSubs == 2

\* largest number of messages SQS hands to one invocation
MaxBatch == 2

\* largest number of external calls that do not succeed
MaxFaults == 2

\* redrive policy of events-queue: the receives after which a message that was
\* not deleted goes to events-dlq
MaxReceiveCount == 3

----------------------------------------------------------------------------
(* Data *)

SEVERITY_LEVELS == <<"LOW", "MEDIUM", "HIGH", "CRITICAL">>

VALID_SEVERITIES == {"LOW", "MEDIUM", "HIGH", "CRITICAL"}

VALID_CHANNELS == {"EMAIL", "WEBHOOK"}

\* event types in use; published events are all of the first kind
EventTypes == {"deployment", "alert"}

PublishedEventTypes == {"deployment"}

\* severities of the events and of the subscription filters of the model:
\* values the two endpoints accept
EventSeverities == {"MEDIUM"}

FilterSeverities == {"MEDIUM", "HIGH"}

\* the same with a value the endpoints would have rejected
OpenEventSeverities == EventSeverities \cup {"BOGUS"}

OpenFilterSeverities == FilterSeverities \cup {"URGENT"}

OpenChannels == VALID_CHANNELS \cup {"SMS"}

SubscriptionIds == 1..MaxSubs

\* the target of a subscription follows its channel
TargetOf(channel) ==
    IF channel = "EMAIL" THEN "ops@example.com" ELSE "https://hooks.example.com/in"

SubscriptionItems(filters, channels) ==
    { [subscriptionId |-> id, eventType |-> et, severityFilter |-> f,
       channel |-> ch, target |-> TargetOf(ch), active |-> a] :
         id \in SubscriptionIds, et \in EventTypes, f \in filters,
         ch \in channels, a \in BOOLEAN }

SubscriptionTables(filters, channels) ==
    { t \in [SubscriptionIds -> SubscriptionItems(filters, channels)] :
        \A id \in SubscriptionIds : t[id].subscriptionId = id }

\* the message the ingest handler builds: eventMessage
EventMessage(id, et, sev) ==
    [eventId |-> id, eventType |-> et, severity |-> sev,
     title |-> "x", details |-> [type |-> "object", value |-> "{}"], receivedAt |-> 0,
     status |-> "PENDING"]

\* JSON.stringify(eventMessage) and JSON.parse(record.body)
MalformedBody == [text |-> "not json"]

JSONStringify(value) == [text |-> "json", value |-> value]

IsJSON(body) == body.text = "json"

JSONParse(body) == body.value

\* every message of the queue carries its own eventId (generateEventId)
BodiesAt(k, severities) ==
    {MalformedBody} \cup
    { JSONStringify(EventMessage(k, et, sev)) :
        et \in PublishedEventTypes, sev \in severities }

Batches(severities) ==
    UNION { { b \in [1..n -> UNION {BodiesAt(k, severities) : k \in 1..n}] :
                \A k \in 1..n : b[k] \in BodiesAt(k, severities) } :
            n \in 1..MaxBatch }

NoEvent == [eventId |-> 0]

\* no second invocation
NoInvocation ==
    [records |-> <<>>, pos |-> 0, pc |-> "idle", event |-> NoEvent,
     subscriptions |-> <<>>, idx |-> 0, notificationCount |-> 0, notifyError |-> "",
     outcome |-> <<>>]

\* no request at the ingest endpoint, and no response
NoRequest == [kind |-> "none"]

NoResponse == [statusCode |-> 0]

\* the subscription handler at rest
NoSubscriptionCall == [pc |-> "idle", request |-> NoRequest, response |-> NoResponse]

----------------------------------------------------------------------------
(* Pure functions of the processor *)

\* Array.prototype.indexOf: the 0-based index of the first occurrence, or -1
IndexOf(seq, v) ==
    IF \E i \in 1..Len(seq) : seq[i] = v
    THEN (CHOOSE i \in 1..Len(seq) :
            seq[i] = v /\ \A j \in 1..(i - 1) : seq[j] # v) - 1
    ELSE -1

\* a threshold an event meets only with a severity above the filter
meetsSeverityThresholdStrictly(eventSeverity, filterSeverity) ==
    IndexOf(SEVERITY_LEVELS, eventSeverity) > IndexOf(SEVERITY_LEVELS, filterSeverity)

meetsSeverityThreshold(eventSeverity, filterSeverity) ==
    IndexOf(SEVERITY_LEVELS, eventSeverity) >= IndexOf(SEVERITY_LEVELS, filterSeverity)

\* the logical time of new Date(): the number of external calls made so far
Now == Len(trace)

\* storeEvent: the item put in the Events table
\* an item built from the key alone, without the fields of the event
StoreEventItemWithoutSpread(ev, now) ==
    [eventId |-> ev.eventId, processedAt |-> now, status |-> "PROCESSED"]

StoreEventItem(ev, now) ==
    [f \in DOMAIN ev \cup {"processedAt", "status"} |->
        CASE f = "processedAt" -> now
          [] f = "status" -> "PROCESSED"
          [] OTHER -> ev[f]]

\* a put that adds the item next to the one of the same key
PutEventAppending(table, item) == table \cup {item}

\* PutCommand on the Events table (partition key eventId)
PutEvent(table, item) ==
    {i \in table : i.eventId # item.eventId} \cup {item}

\* QueryCommand on eventType-index with FilterExpression active = :active
SeqOfTable(table) == [i \in 1..MaxSubs |-> table[i]]

\* a query whose FilterExpression is missing
IsQueryMatchWithoutFilter(item, eventType) == item.eventType = eventType

\* a query that returns the active subscriptions of every type
IsQueryMatchAnyType(item, eventType) == item.active = TRUE

IsQueryMatch(item, eventType) == item.eventType = eventType /\ item.active = TRUE

QuerySubscriptions(table, eventType) ==
    LET Match(item) == IsQueryMatch(item, eventType)
    IN  SelectSeq(SeqOfTable(table), Match)

\* a recordNotification that sets errorMessage whatever its value
NotificationItemAlwaysWithMessage(eventId, subscription, status, errorMessage, now) ==
    [eventId |-> eventId,
     subscriptionId |-> subscription.subscriptionId,
     channel |-> subscription.channel,
     target |-> subscription.target,
     status |-> status,
     attemptedAt |-> now,
     errorMessage |-> errorMessage]

\* a record that takes channel and target from the Subscriptions table as it
\* is when the record is written
NotificationItemFromTable(eventId, subscription, status, errorMessage, now) ==
    LET current == subscriptionsTable[subscription.subscriptionId]
        item == [eventId |-> eventId,
                 subscriptionId |-> subscription.subscriptionId,
                 channel |-> current.channel,
                 target |-> current.target,
                 status |-> status,
                 attemptedAt |-> now]
    IN  IF errorMessage # "" THEN item @@ [errorMessage |-> errorMessage] ELSE item

\* recordNotification: the item put in the Notifications table
NotificationItem(eventId, subscription, status, errorMessage, now) ==
    LET item == [eventId |-> eventId,
                 subscriptionId |-> subscription.subscriptionId,
                 channel |-> subscription.channel,
                 target |-> subscription.target,
                 status |-> status,
                 attemptedAt |-> now]
    IN  IF errorMessage # "" THEN item @@ [errorMessage |-> errorMessage] ELSE item

\* a put that adds the item next to the one of the same key
PutNotificationAppending(table, item) == table \cup {item}

\* PutCommand on the Notifications table (key eventId, subscriptionId)
PutNotification(table, item) ==
    {i \in table : ~(i.eventId = item.eventId /\ i.subscriptionId = item.subscriptionId)}
        \cup {item}

\* one external call, as the history keeps it
Call(op, eventId, subscriptionId, status, result) ==
    [op |-> op, eventId |-> eventId, subscriptionId |-> subscriptionId,
     status |-> status, result |-> result]

\* the results an external call may have: any of them while the invocation has
\* seen fewer than MaxFaults calls that did not succeed, success after that
Faults == Cardinality({j \in 1..Len(trace) : trace[j].result # "ok"})

Results(all) == IF Faults < MaxFaults THEN all ELSE {"ok"}

\* how the work on one message ended
Ended(result, count) == [result |-> result, notificationCount |-> count]

----------------------------------------------------------------------------
(* Initial states *)

InitProcessor ==
    /\ eventsTable = {}
    /\ notificationsTable = {}
    /\ records = <<>>
    /\ pos = 0
    /\ pc = "idle"
    /\ event = NoEvent
    /\ subscriptions = <<>>
    /\ idx = 0
    /\ notificationCount = 0
    /\ notifyError = ""
    /\ outcome = <<>>
    /\ trace = <<>>

\* a queue that has delivered nothing yet, and an ingest endpoint at rest
InitService ==
    /\ receiveCount = 0
    /\ dlq = <<>>
    /\ attempts = <<>>
    /\ request = NoRequest
    /\ response = NoResponse
    /\ ingestPc = "idle"
    /\ subscriptionCall = NoSubscriptionCall

\* the tables and the queue hold what the two endpoints accept
Init ==
    /\ subscriptionsTable \in SubscriptionTables(FilterSeverities, VALID_CHANNELS)
    /\ queue \in Batches(EventSeverities)
    /\ InitProcessor
    /\ InitService
    /\ other = NoInvocation

\* the tables and the queue may hold a severity or a channel outside the valid sets
InitOpen ==
    /\ subscriptionsTable \in SubscriptionTables(OpenFilterSeverities, OpenChannels)
    /\ queue \in Batches(OpenEventSeverities)
    /\ InitProcessor
    /\ InitService
    /\ other = NoInvocation

----------------------------------------------------------------------------
(* The handler *)

\* a catch block that logs the error and lets the handler return
HandlerSwallows(result) ==
    /\ outcome' = Append(outcome, Ended(result, notificationCount))
    /\ pc' = "returned"

\* the catch block of the handler: log and rethrow
HandlerThrows(result) ==
    /\ outcome' = Append(outcome, Ended(result, notificationCount))
    /\ pc' = "thrown"

\* SQS receives the messages of the queue (their receive count goes up by one)
\* and invokes the handler with them
Invoke ==
    /\ pc = "idle"
    /\ queue # <<>>
    /\ records' = queue
    /\ pos' = 1
    /\ pc' = "parse"
    /\ receiveCount' = receiveCount + 1
    /\ UNCHANGED envVars
    /\ UNCHANGED <<subscriptionsTable, eventsTable, notificationsTable, queue, event,
                   subscriptions, idx, notificationCount, notifyError, outcome, trace>>

\* a handler that logs a body it cannot parse and goes on with the next record
ParseSkippingMalformed ==
    /\ pc = "parse"
    /\ IF IsJSON(records[pos])
       THEN /\ event' = JSONParse(records[pos])
            /\ pc' = "storeEvent"
            /\ UNCHANGED <<outcome, pos>>
       ELSE /\ outcome' = Append(outcome, Ended("JSON.parse", notificationCount))
            /\ IF pos < Len(records)
               THEN pos' = pos + 1 /\ pc' = "parse"
               ELSE pos' = pos /\ pc' = "thrown"
            /\ UNCHANGED event
    /\ UNCHANGED <<receiveCount, envVars>>
    /\ UNCHANGED <<subscriptionsTable, eventsTable, notificationsTable, queue, records,
                   subscriptions, idx, notificationCount, notifyError, trace>>

\* const event = JSON.parse(record.body); processEvent(event) starts
Parse ==
    /\ pc = "parse"
    /\ IF IsJSON(records[pos])
       THEN /\ event' = JSONParse(records[pos])
            /\ pc' = "storeEvent"
            /\ UNCHANGED outcome
       ELSE /\ HandlerThrows("JSON.parse")
            /\ UNCHANGED event
    /\ UNCHANGED <<receiveCount, envVars>>
    /\ UNCHANGED <<subscriptionsTable, eventsTable, notificationsTable, queue, records,
                   pos, subscriptions, idx, notificationCount, notifyError, trace>>

\* a storeEvent whose error is caught and logged instead of thrown
StoreEventSwallowingError ==
    /\ pc = "storeEvent"
    /\ \E result \in Results({"ok", "error"}) :
        /\ trace' = Append(trace, Call("PutEvent", event.eventId, 0, "", result))
        /\ eventsTable' = IF result = "ok"
                          THEN PutEvent(eventsTable, StoreEventItem(event, Now))
                          ELSE eventsTable
        /\ pc' = "findMatchingSubscriptions"
    /\ UNCHANGED <<receiveCount, envVars>>
    /\ UNCHANGED <<subscriptionsTable, notificationsTable, queue, records, pos, event,
                   subscriptions, idx, notificationCount, notifyError, outcome>>

\* await storeEvent(event)
StoreEvent ==
    /\ pc = "storeEvent"
    /\ \E result \in Results({"ok", "error"}) :
        /\ trace' = Append(trace, Call("PutEvent", event.eventId, 0, "", result))
        /\ IF result = "ok"
           THEN /\ eventsTable' = PutEvent(eventsTable, StoreEventItem(event, Now))
                /\ pc' = "findMatchingSubscriptions"
                /\ UNCHANGED outcome
           ELSE /\ HandlerThrows("storeEvent")
                /\ UNCHANGED eventsTable
    /\ UNCHANGED <<receiveCount, envVars>>
    /\ UNCHANGED <<subscriptionsTable, notificationsTable, queue, records, pos, event,
                   subscriptions, idx, notificationCount, notifyError>>

\* a lookup whose error is caught and answered with no subscriptions
FindMatchingSubscriptionsSwallowingError ==
    /\ pc = "findMatchingSubscriptions"
    /\ \E result \in Results({"ok", "error"}) :
        /\ trace' = Append(trace, Call("Query", event.eventId, 0, "", result))
        /\ subscriptions' = IF result = "ok"
                            THEN QuerySubscriptions(subscriptionsTable, event.eventType)
                            ELSE <<>>
        /\ idx' = 1
        /\ notificationCount' = 0
        /\ pc' = "loop"
    /\ UNCHANGED <<receiveCount, envVars>>
    /\ UNCHANGED <<subscriptionsTable, eventsTable, notificationsTable, queue, records,
                   pos, event, notifyError, outcome>>

\* a lookup that fails when the query returns no item
FindMatchingSubscriptionsRejectingEmpty ==
    /\ pc = "findMatchingSubscriptions"
    /\ \E result \in Results({"ok", "error"}) :
        /\ trace' = Append(trace, Call("Query", event.eventId, 0, "", result))
        /\ IF result = "ok" /\ QuerySubscriptions(subscriptionsTable, event.eventType) # <<>>
           THEN /\ subscriptions' = QuerySubscriptions(subscriptionsTable, event.eventType)
                /\ idx' = 1
                /\ notificationCount' = 0
                /\ pc' = "loop"
                /\ UNCHANGED outcome
           ELSE /\ HandlerThrows("findMatchingSubscriptions")
                /\ UNCHANGED <<subscriptions, idx, notificationCount>>
    /\ UNCHANGED <<receiveCount, envVars>>
    /\ UNCHANGED <<subscriptionsTable, eventsTable, notificationsTable, queue, records,
                   pos, event, notifyError>>

\* const subscriptions = await findMatchingSubscriptions(event.eventType);
\* let notificationCount = 0
FindMatchingSubscriptions ==
    /\ pc = "findMatchingSubscriptions"
    /\ \E result \in Results({"ok", "error"}) :
        /\ trace' = Append(trace, Call("Query", event.eventId, 0, "", result))
        /\ IF result = "ok"
           THEN /\ subscriptions' = QuerySubscriptions(subscriptionsTable, event.eventType)
                /\ idx' = 1
                /\ notificationCount' = 0
                /\ pc' = "loop"
                /\ UNCHANGED outcome
           ELSE /\ HandlerThrows("findMatchingSubscriptions")
                /\ UNCHANGED <<subscriptions, idx, notificationCount>>
    /\ UNCHANGED <<receiveCount, envVars>>
    /\ UNCHANGED <<subscriptionsTable, eventsTable, notificationsTable, queue, records,
                   pos, event, notifyError>>

\* the loop is over: processEvent returns notificationCount, and the handler
\* goes to the next record or returns { statusCode: 200 }
Return ==
    /\ pc = "loop"
    /\ idx > Len(subscriptions)
    /\ outcome' = Append(outcome, Ended("returned", notificationCount))
    /\ IF pos < Len(records)
       THEN /\ pos' = pos + 1
            /\ pc' = "parse"
            /\ UNCHANGED queue
       ELSE /\ pc' = "returned"
            /\ queue' = <<>>
            /\ UNCHANGED pos
    /\ UNCHANGED <<receiveCount, envVars>>
    /\ UNCHANGED <<subscriptionsTable, eventsTable, notificationsTable, records, event,
                   subscriptions, idx, notificationCount, notifyError, trace>>

\* if (!meetsSeverityThreshold(...)) continue
Skip ==
    /\ pc = "loop"
    /\ idx <= Len(subscriptions)
    /\ ~meetsSeverityThreshold(event.severity, subscriptions[idx].severityFilter)
    /\ idx' = idx + 1
    /\ UNCHANGED <<receiveCount, envVars>>
    /\ UNCHANGED <<subscriptionsTable, eventsTable, notificationsTable, queue, records,
                   pos, pc, event, subscriptions, notificationCount, notifyError,
                   outcome, trace>>

\* the results of sesClient.send and of fetch; fetch resolves with a response
\* whose ok is false for a status outside 2xx
TransportResults(channel) ==
    IF channel = "EMAIL" THEN {"ok", "error"} ELSE {"ok", "error", "http500"}

\* a dispatch that sends everything to the webhook transport
TransportOpAlwaysFetch(channel) == "Fetch"

TransportOp(channel) == IF channel = "EMAIL" THEN "SendEmail" ELSE "Fetch"

ErrorMessage(op, result) ==
    IF op = "SendEmail" THEN "Email address is not verified"
    ELSE IF op = "Fetch"
         THEN IF result = "http500" THEN "Webhook failed: 500 Internal Server Error"
              ELSE "fetch failed"
         ELSE "The provisioned throughput is exceeded"

\* a delivery that is left out when the Notifications table already has a SENT
\* record of the event for the subscription
DeliverSkippingRecorded ==
    /\ pc = "loop"
    /\ idx <= Len(subscriptions)
    /\ meetsSeverityThreshold(event.severity, subscriptions[idx].severityFilter)
    /\ LET subscription == subscriptions[idx]
           op == TransportOp(subscription.channel)
       IN  IF \E n \in notificationsTable :
                 /\ n.eventId = event.eventId
                 /\ n.subscriptionId = subscription.subscriptionId
                 /\ n.status = "SENT"
           THEN /\ idx' = idx + 1
                /\ UNCHANGED <<trace, notifyError, pc>>
           ELSE /\ \E result \in Results(TransportResults(subscription.channel)) :
                      /\ trace' = Append(trace, Call(op, event.eventId,
                                                     subscription.subscriptionId, "", result))
                      /\ IF result = "ok"
                         THEN pc' = "recordSent" /\ UNCHANGED notifyError
                         ELSE pc' = "recordFailed" /\ notifyError' = ErrorMessage(op, result)
                /\ UNCHANGED idx
    /\ UNCHANGED <<receiveCount, envVars>>
    /\ UNCHANGED <<subscriptionsTable, eventsTable, notificationsTable, queue, records,
                   pos, event, subscriptions, notificationCount, outcome>>

\* a delivery that is started and not awaited: the loop goes on to the record
DeliverWithoutAwait ==
    /\ pc = "loop"
    /\ idx <= Len(subscriptions)
    /\ meetsSeverityThreshold(event.severity, subscriptions[idx].severityFilter)
    /\ pc' = "recordSent"
    /\ UNCHANGED <<receiveCount, envVars>>
    /\ UNCHANGED <<subscriptionsTable, eventsTable, notificationsTable, queue, records,
                   pos, event, subscriptions, idx, notificationCount, outcome, trace,
                   notifyError>>

\* the try block up to the transport: sendEmailNotification for EMAIL,
\* sendWebhookNotification for WEBHOOK, nothing for any other channel
Deliver ==
    /\ pc = "loop"
    /\ idx <= Len(subscriptions)
    /\ meetsSeverityThreshold(event.severity, subscriptions[idx].severityFilter)
    /\ LET subscription == subscriptions[idx]
           op == TransportOp(subscription.channel)
       IN  IF subscription.channel \in {"EMAIL", "WEBHOOK"}
           THEN \E result \in Results(TransportResults(subscription.channel)) :
                  /\ trace' = Append(trace, Call(op, event.eventId,
                                                 subscription.subscriptionId, "", result))
                  /\ IF result = "ok"
                     THEN pc' = "recordSent" /\ UNCHANGED notifyError
                     ELSE pc' = "recordFailed" /\ notifyError' = ErrorMessage(op, result)
           ELSE /\ pc' = "recordSent"
                /\ UNCHANGED <<trace, notifyError>>
    /\ UNCHANGED <<receiveCount, envVars>>
    /\ UNCHANGED <<subscriptionsTable, eventsTable, notificationsTable, queue, records,
                   pos, event, subscriptions, idx, notificationCount, outcome>>

\* a SENT write that does not count the notification
RecordSentNotCounting ==
    /\ pc = "recordSent"
    /\ \E result \in Results({"ok", "error"}) :
        /\ trace' = Append(trace, Call("PutNotification", event.eventId,
                                       subscriptions[idx].subscriptionId, "SENT", result))
        /\ IF result = "ok"
           THEN /\ notificationsTable' =
                      PutNotification(notificationsTable,
                          NotificationItem(event.eventId, subscriptions[idx], "SENT", "", Now))
                /\ idx' = idx + 1
                /\ pc' = "loop"
                /\ UNCHANGED <<notifyError, notificationCount>>
           ELSE /\ notifyError' = ErrorMessage("PutNotification", result)
                /\ pc' = "recordFailed"
                /\ UNCHANGED <<notificationsTable, notificationCount, idx>>
    /\ UNCHANGED <<receiveCount, envVars>>
    /\ UNCHANGED <<subscriptionsTable, eventsTable, queue, records, pos, event,
                   subscriptions, outcome>>

\* await recordNotification(event.eventId, subscription, "SENT"); notificationCount++
RecordSent ==
    /\ pc = "recordSent"
    /\ \E result \in Results({"ok", "error"}) :
        /\ trace' = Append(trace, Call("PutNotification", event.eventId,
                                       subscriptions[idx].subscriptionId, "SENT", result))
        /\ IF result = "ok"
           THEN /\ notificationsTable' =
                      PutNotification(notificationsTable,
                          NotificationItem(event.eventId, subscriptions[idx], "SENT", "", Now))
                /\ notificationCount' = notificationCount + 1
                /\ idx' = idx + 1
                /\ pc' = "loop"
                /\ UNCHANGED notifyError
           ELSE /\ notifyError' = ErrorMessage("PutNotification", result)
                /\ pc' = "recordFailed"
                /\ UNCHANGED <<notificationsTable, notificationCount, idx>>
    /\ UNCHANGED <<receiveCount, envVars>>
    /\ UNCHANGED <<subscriptionsTable, eventsTable, queue, records, pos, event,
                   subscriptions, outcome>>

\* the catch block: await recordNotification(event.eventId, subscription, "FAILED",
\* notifyError.message); an error of this call leaves processEvent
RecordFailed ==
    /\ pc = "recordFailed"
    /\ \E result \in Results({"ok", "error"}) :
        /\ trace' = Append(trace, Call("PutNotification", event.eventId,
                                       subscriptions[idx].subscriptionId, "FAILED", result))
        /\ IF result = "ok"
           THEN /\ notificationsTable' =
                      PutNotification(notificationsTable,
                          NotificationItem(event.eventId, subscriptions[idx], "FAILED",
                                           notifyError, Now))
                /\ idx' = idx + 1
                /\ pc' = "loop"
                /\ UNCHANGED outcome
           ELSE /\ HandlerThrows("recordNotification")
                /\ UNCHANGED <<notificationsTable, idx>>
    /\ UNCHANGED <<receiveCount, envVars>>
    /\ UNCHANGED <<subscriptionsTable, eventsTable, queue, records, pos, event,
                   subscriptions, notificationCount, notifyError>>

Next ==
    \/ Invoke
    \/ Parse
    \/ StoreEvent
    \/ FindMatchingSubscriptions
    \/ Return
    \/ Skip
    \/ Deliver
    \/ RecordSent
    \/ RecordFailed

Spec == Init /\ [][Next]_vars

SpecOpen == InitOpen /\ [][Next]_vars

----------------------------------------------------------------------------
(* The ingest Lambda *)

\* JavaScript values of the fields of a request body: typeof and, for a string,
\* its text
Undefined == [type |-> "undefined", value |-> ""]

Null == [type |-> "object", value |-> "null"]

Object == [type |-> "object", value |-> "{}"]

Number == [type |-> "number", value |-> "5"]

String(text) == [type |-> "string", value |-> text]

\* !value
IsFalsy(v) ==
    \/ v.type = "undefined"
    \/ v = Null
    \/ v.type = "string" /\ v.value = ""

\* String.prototype.toUpperCase and toLowerCase on the strings of the model
ToUpperCase(text) ==
    CASE text = "high" -> "HIGH"
      [] text = "Critical" -> "CRITICAL"
      [] text = "super_high" -> "SUPER_HIGH"
      [] text = "Deployment" -> "DEPLOYMENT"
      [] text = "alert" -> "ALERT"
      [] text = "email" -> "EMAIL"
      [] text = "sms" -> "SMS"
      [] OTHER -> text

ToLowerCase(text) ==
    CASE text = "Deployment" -> "deployment"
      [] text = "LOW" -> "low"
      [] text = "Critical" -> "critical"
      [] text = "SUPER_HIGH" -> "super_high"
      [] OTHER -> text

\* the requests of the model: a body that is not JSON, no body (or the JSON
\* null), and JSON objects
EventTypeValues == {Undefined, Number, String(""), String("Deployment"), String("alert")}

SeverityValues ==
    {Undefined, Number, String(""), String("high"), String("LOW"), String("Critical"),
     String("SUPER_HIGH"), String("super_high")}

TitleValues == {Undefined, Number, String("x")}

DetailsValues == {Undefined, Object, Null, String("text")}

Requests ==
    { [kind |-> k, eventType |-> Undefined, severity |-> Undefined,
       title |-> Undefined, details |-> Undefined] : k \in {"invalid", "null"} }
    \cup
    { [kind |-> "json", eventType |-> et, severity |-> sev, title |-> t, details |-> d] :
        et \in EventTypeValues, sev \in SeverityValues, t \in TitleValues,
        d \in DetailsValues }

\* a validation that accepts any non-empty string as severity
validateEventWithoutSeveritySet(body) ==
    LET errors ==
          (IF IsFalsy(body.eventType) \/ body.eventType.type # "string"
           THEN <<"eventType is required and must be a string">> ELSE <<>>)
          \o (IF IsFalsy(body.severity) \/ body.severity.type # "string"
              THEN <<"severity is required and must be a string">> ELSE <<>>)
          \o (IF IsFalsy(body.title) \/ body.title.type # "string"
              THEN <<"title is required and must be a string">> ELSE <<>>)
          \o (IF body.details.type # "undefined" /\ body.details.type # "object"
              THEN <<"details must be an object if provided">> ELSE <<>>)
    IN  [valid |-> errors = <<>>, errors |-> errors]

validateEvent(body) ==
    LET errors ==
          (IF IsFalsy(body.eventType) \/ body.eventType.type # "string"
           THEN <<"eventType is required and must be a string">> ELSE <<>>)
          \o (IF IsFalsy(body.severity) \/ body.severity.type # "string"
              THEN <<"severity is required and must be a string">>
              ELSE IF ToUpperCase(body.severity.value) \notin VALID_SEVERITIES
                   THEN <<"severity must be one of: LOW, MEDIUM, HIGH, CRITICAL">>
                   ELSE <<>>)
          \o (IF IsFalsy(body.title) \/ body.title.type # "string"
              THEN <<"title is required and must be a string">> ELSE <<>>)
          \o (IF body.details.type # "undefined" /\ body.details.type # "object"
              THEN <<"details must be an object if provided">> ELSE <<>>)
    IN  [valid |-> errors = <<>>, errors |-> errors]

buildResponse(statusCode, text, eventId) ==
    [statusCode |-> statusCode, body |-> text, eventId |-> eventId]

\* API Gateway invokes the ingest handler with a request
Request ==
    /\ ingestPc = "idle"
    /\ Len(queue) < MaxBatch
    /\ \E r \in Requests : request' = r
    /\ response' = NoResponse
    /\ ingestPc' = "handle"
    /\ UNCHANGED <<subscriptionsTable, eventsTable, notificationsTable, queue, records,
                   pos, pc, event, subscriptions, idx, notificationCount, notifyError,
                   outcome, trace, receiveCount, dlq, attempts, other,
                   subscriptionCall>>

\* the ingest handler up to its await: parse the body, validate it, build
\* eventMessage.  validateEvent(null) throws a TypeError that nothing catches:
\* the invocation fails and API Gateway answers 502
IngestHandle ==
    /\ ingestPc = "handle"
    /\ IF request.kind = "invalid"
       THEN /\ response' = buildResponse(400, "Invalid JSON in request body", 0)
            /\ ingestPc' = "idle"
       ELSE IF request.kind = "null"
       THEN /\ response' = buildResponse(502, "Internal server error", 0)
            /\ ingestPc' = "idle"
       ELSE IF ~validateEvent(request).valid
       THEN /\ response' = buildResponse(400, "Validation failed", 0)
            /\ ingestPc' = "idle"
       ELSE /\ ingestPc' = "send"
            /\ UNCHANGED response
    /\ UNCHANGED <<subscriptionsTable, eventsTable, notificationsTable, queue, records,
                   pos, pc, event, subscriptions, idx, notificationCount, notifyError,
                   outcome, trace, receiveCount, dlq, attempts, other, request,
                   subscriptionCall>>

\* await sqsClient.send(new SendMessageCommand(...)): 202 once the message is
\* in the queue, 500 when the send fails
IngestSend ==
    /\ ingestPc = "send"
    /\ \E result \in {"ok", "error"} :
        LET eventId == Len(queue) + 1
            eventMessage == EventMessage(eventId,
                                         ToLowerCase(request.eventType.value),
                                         ToUpperCase(request.severity.value))
        IN  IF result = "ok"
            THEN /\ queue' = Append(queue, JSONStringify(eventMessage))
                 /\ response' = buildResponse(202, "accepted", eventId)
            ELSE /\ response' = buildResponse(500, "Failed to queue event", 0)
                 /\ UNCHANGED queue
    /\ ingestPc' = "idle"
    /\ UNCHANGED <<subscriptionsTable, eventsTable, notificationsTable, records,
                   pos, pc, event, subscriptions, idx, notificationCount, notifyError,
                   outcome, trace, receiveCount, dlq, attempts, other, request,
                   subscriptionCall>>

\* an empty queue and an idle processor
InitIngest ==
    /\ subscriptionsTable \in
          { t \in SubscriptionTables({"MEDIUM"}, {"EMAIL"}) :
              \A id \in SubscriptionIds :
                  t[id].active /\ t[id].eventType \in PublishedEventTypes }
    /\ queue = <<>>
    /\ InitProcessor
    /\ InitService
    /\ other = NoInvocation

NextIngest ==
    \/ Request
    \/ IngestHandle
    \/ IngestSend

SpecIngest == InitIngest /\ [][NextIngest]_vars

----------------------------------------------------------------------------
(* The subscription Lambda (POST /subscriptions) *)

\* isValidEmail and isValidWebhookUrl on the strings of the model: the regular
\* expression wants an @ and a dot after it; new URL() throws on a string
\* without a scheme, and the protocol must be http: or https:
isValidEmail(email) == email = "ops@example.com"

isValidWebhookUrl(url) == url = "https://hooks.example.com/in"

SubscriptionEventTypeValues == {Undefined, String("Deployment"), String("alert")}

SeverityFilterValues ==
    {Undefined, Number, String("high"), String("MEDIUM"), String("super_high")}

ChannelValues == {Undefined, Number, String("email"), String("WEBHOOK"), String("sms")}

TargetValues ==
    {Undefined, String("ops@example.com"), String("https://hooks.example.com/in"),
     String("ftp://files.example.com/in")}

SubscriptionRequests ==
    { [kind |-> k, eventType |-> Undefined, severityFilter |-> Undefined,
       channel |-> Undefined, target |-> Undefined] : k \in {"invalid", "null"} }
    \cup
    { [kind |-> "json", eventType |-> et, severityFilter |-> f, channel |-> ch,
       target |-> t] :
        et \in SubscriptionEventTypeValues, f \in SeverityFilterValues,
        ch \in ChannelValues, t \in TargetValues }

\* validateSubscription throws a TypeError, which nothing catches, when body is
\* null (body.eventType) and when target is a string and channel is a truthy
\* value that is not a string (body.channel.toUpperCase())
validateSubscriptionThrows(body) ==
    \/ body.kind = "null"
    \/ /\ ~(IsFalsy(body.target) \/ body.target.type # "string")
       /\ ~IsFalsy(body.channel)
       /\ body.channel.type # "string"

validateSubscription(body) ==
    LET errors ==
          (IF IsFalsy(body.eventType) \/ body.eventType.type # "string"
           THEN <<"eventType is required and must be a string">> ELSE <<>>)
          \o (IF IsFalsy(body.severityFilter) \/ body.severityFilter.type # "string"
              THEN <<"severityFilter is required and must be a string">>
              ELSE IF ToUpperCase(body.severityFilter.value) \notin VALID_SEVERITIES
                   THEN <<"severityFilter must be one of: LOW, MEDIUM, HIGH, CRITICAL">>
                   ELSE <<>>)
          \o (IF IsFalsy(body.channel) \/ body.channel.type # "string"
              THEN <<"channel is required and must be a string">>
              ELSE IF ToUpperCase(body.channel.value) \notin VALID_CHANNELS
                   THEN <<"channel must be one of: EMAIL, WEBHOOK">>
                   ELSE <<>>)
          \o (IF IsFalsy(body.target) \/ body.target.type # "string"
              THEN <<"target is required and must be a string">>
              ELSE IF IsFalsy(body.channel) THEN <<>>
              ELSE LET channel == ToUpperCase(body.channel.value)
                   IN  IF channel = "EMAIL" /\ ~isValidEmail(body.target.value)
                       THEN <<"target must be a valid email address for EMAIL channel">>
                       ELSE IF channel = "WEBHOOK" /\ ~isValidWebhookUrl(body.target.value)
                       THEN <<"target must be a valid HTTP/HTTPS URL for WEBHOOK channel">>
                       ELSE <<>>)
    IN  [valid |-> errors = <<>>, errors |-> errors]

\* the subscription record the handler builds; generateSubscriptionId gives
\* every record its own id
SubscriptionRecord(subscriptionId, body, now) ==
    [subscriptionId |-> subscriptionId,
     eventType |-> ToLowerCase(body.eventType.value),
     severityFilter |-> ToUpperCase(body.severityFilter.value),
     channel |-> ToUpperCase(body.channel.value),
     target |-> body.target.value,
     active |-> TRUE,
     createdAt |-> now]

\* PutCommand on the Subscriptions table (partition key subscriptionId)
PutSubscription(table, item) ==
    IF item.subscriptionId \in DOMAIN table
    THEN [table EXCEPT ![item.subscriptionId] = item]
    ELSE Append(table, item)

\* API Gateway invokes the subscription handler with a request
SubscriptionRequest ==
    /\ subscriptionCall.pc = "idle"
    /\ Len(subscriptionsTable) < MaxSubs
    /\ \E r \in SubscriptionRequests :
          subscriptionCall' = [pc |-> "handle", request |-> r, response |-> NoResponse]
    /\ UNCHANGED <<subscriptionsTable, eventsTable, notificationsTable, queue, records,
                   pos, pc, event, subscriptions, idx, notificationCount, notifyError,
                   outcome, trace, receiveCount, dlq, attempts, other, request,
                   response, ingestPc>>

\* the subscription handler up to its await: parse the body and validate it.
\* An error thrown by validateSubscription fails the invocation, and API
\* Gateway answers 502
SubscriptionHandle ==
    /\ subscriptionCall.pc = "handle"
    /\ LET body == subscriptionCall.request
       IN  IF body.kind = "invalid"
           THEN subscriptionCall' =
                    [subscriptionCall EXCEPT
                        !.pc = "idle",
                        !.response = buildResponse(400, "Invalid JSON in request body", 0)]
           ELSE IF validateSubscriptionThrows(body)
           THEN subscriptionCall' =
                    [subscriptionCall EXCEPT
                        !.pc = "idle",
                        !.response = buildResponse(502, "Internal server error", 0)]
           ELSE IF ~validateSubscription(body).valid
           THEN subscriptionCall' =
                    [subscriptionCall EXCEPT
                        !.pc = "idle",
                        !.response = buildResponse(400, "Validation failed", 0)]
           ELSE subscriptionCall' = [subscriptionCall EXCEPT !.pc = "store"]
    /\ UNCHANGED <<subscriptionsTable, eventsTable, notificationsTable, queue, records,
                   pos, pc, event, subscriptions, idx, notificationCount, notifyError,
                   outcome, trace, receiveCount, dlq, attempts, other, request,
                   response, ingestPc>>

\* await docClient.send(new PutCommand(...)): 201 once the record is stored,
\* 500 when the put fails
SubscriptionStore ==
    /\ subscriptionCall.pc = "store"
    /\ \E result \in {"ok", "error"} :
        LET subscriptionId == Len(subscriptionsTable) + 1
            subscription == SubscriptionRecord(subscriptionId, subscriptionCall.request, Now)
        IN  IF result = "ok"
            THEN /\ subscriptionsTable' = PutSubscription(subscriptionsTable, subscription)
                 /\ subscriptionCall' =
                        [subscriptionCall EXCEPT
                            !.pc = "idle",
                            !.response = buildResponse(201, "Subscription created successfully",
                                                       subscriptionId)]
            ELSE /\ subscriptionCall' =
                        [subscriptionCall EXCEPT
                            !.pc = "idle",
                            !.response = buildResponse(500, "Failed to create subscription", 0)]
                 /\ UNCHANGED subscriptionsTable
    /\ UNCHANGED <<eventsTable, notificationsTable, queue, records,
                   pos, pc, event, subscriptions, idx, notificationCount, notifyError,
                   outcome, trace, receiveCount, dlq, attempts, other, request,
                   response, ingestPc>>

\* the two endpoints in front of the processor: either the Subscriptions table
\* is empty and the queue is full, or the table is full and the queue is empty
InitEndpoints ==
    /\ \/ /\ subscriptionsTable = <<>>
          /\ queue \in { b \in Batches(EventSeverities) :
                           Len(b) = MaxBatch /\ \A k \in 1..Len(b) : IsJSON(b[k]) }
       \/ /\ subscriptionsTable \in
                { t \in SubscriptionTables({"MEDIUM"}, {"EMAIL"}) :
                    \A id \in SubscriptionIds :
                        t[id].active /\ t[id].eventType \in PublishedEventTypes }
          /\ queue = <<>>
    /\ InitProcessor
    /\ InitService
    /\ other = NoInvocation

NextEndpoints ==
    \/ NextIngest
    \/ SubscriptionRequest
    \/ SubscriptionHandle
    \/ SubscriptionStore

SpecEndpoints == InitEndpoints /\ [][NextEndpoints]_vars

----------------------------------------------------------------------------
(* A transport call that never completes *)

\* sesClient.send or fetch is awaited and never settles: neither call is given
\* a timeout or an abort signal
DeliverNeverCompletes ==
    /\ pc = "loop"
    /\ idx <= Len(subscriptions)
    /\ meetsSeverityThreshold(event.severity, subscriptions[idx].severityFilter)
    /\ subscriptions[idx].channel \in {"EMAIL", "WEBHOOK"}
    /\ Faults < MaxFaults
    /\ trace' = Append(trace, Call(TransportOp(subscriptions[idx].channel), event.eventId,
                                   subscriptions[idx].subscriptionId, "", "pending"))
    /\ pc' = "awaitTransport"
    /\ UNCHANGED <<receiveCount, envVars>>
    /\ UNCHANGED <<subscriptionsTable, eventsTable, notificationsTable, queue, records,
                   pos, event, subscriptions, idx, notificationCount, notifyError, outcome>>

\* the Lambda runtime ends the invocation at the function's timeout: the
\* handler does not return, and its messages are not deleted
TaskTimedOut ==
    /\ pc = "awaitTransport"
    /\ HandlerThrows("Task timed out")
    /\ UNCHANGED <<receiveCount, envVars>>
    /\ UNCHANGED <<subscriptionsTable, eventsTable, notificationsTable, queue, records,
                   pos, event, subscriptions, idx, notificationCount, notifyError, trace>>

NextHang ==
    \/ Next
    \/ DeliverNeverCompletes
    \/ TaskTimedOut

SpecHang == Init /\ [][NextHang]_vars

----------------------------------------------------------------------------
(* The queue: redelivery and the dead-letter queue *)

\* the local state of an invocation that has not started
ResetInvocation ==
    /\ pos' = 0
    /\ pc' = "idle"
    /\ event' = NoEvent
    /\ subscriptions' = <<>>
    /\ idx' = 0
    /\ notificationCount' = 0
    /\ notifyError' = ""
    /\ outcome' = <<>>

\* a queue that hands the messages out once more than the redrive policy says
RedeliverOnceMore ==
    /\ pc = "thrown"
    /\ receiveCount <= MaxReceiveCount
    /\ attempts' = Append(attempts, outcome)
    /\ ResetInvocation
    /\ UNCHANGED <<subscriptionsTable, eventsTable, notificationsTable, queue, records,
                   trace, receiveCount, dlq, other, request, response, ingestPc,
                   subscriptionCall>>

\* the handler threw, so no message of the batch was deleted: after the
\* visibility timeout SQS hands the messages to a new invocation
Redeliver ==
    /\ pc = "thrown"
    /\ receiveCount < MaxReceiveCount
    /\ attempts' = Append(attempts, outcome)
    /\ ResetInvocation
    /\ UNCHANGED <<subscriptionsTable, eventsTable, notificationsTable, queue, records,
                   trace, receiveCount, dlq, other, request, response, ingestPc,
                   subscriptionCall>>

\* a queue that drops the messages after the last receive
DeadLetterDropping ==
    /\ pc = "thrown"
    /\ receiveCount >= MaxReceiveCount
    /\ queue' = <<>>
    /\ attempts' = Append(attempts, outcome)
    /\ ResetInvocation
    /\ UNCHANGED <<subscriptionsTable, eventsTable, notificationsTable, records,
                   trace, receiveCount, dlq, other, request, response, ingestPc,
                   subscriptionCall>>

\* the handler threw on the last receive the redrive policy allows: SQS moves
\* the messages to events-dlq, which has no consumer
DeadLetter ==
    /\ pc = "thrown"
    /\ receiveCount >= MaxReceiveCount
    /\ dlq' = dlq \o queue
    /\ queue' = <<>>
    /\ attempts' = Append(attempts, outcome)
    /\ ResetInvocation
    /\ UNCHANGED <<subscriptionsTable, eventsTable, notificationsTable, records,
                   trace, receiveCount, other, request, response, ingestPc,
                   subscriptionCall>>

\* active subscriptions of the published type: the first has the filter the
\* events meet, the others a filter above the events' severity
OneEligibleTables ==
    { t \in SubscriptionTables(FilterSeverities, VALID_CHANNELS) :
        \A id \in SubscriptionIds :
            /\ t[id].active
            /\ t[id].eventType \in PublishedEventTypes
            /\ t[id].severityFilter = (IF id = 1 THEN "MEDIUM" ELSE "HIGH")
            /\ id # 1 => t[id].channel = "EMAIL" }

\* one batch in the queue
InitQueue ==
    /\ subscriptionsTable \in OneEligibleTables
    /\ queue \in Batches(EventSeverities)
    /\ InitProcessor
    /\ InitService
    /\ other = NoInvocation

\* one invocation on one batch, with the subscriptions of InitQueue
SpecBatch == InitQueue /\ [][Next]_vars

NextQueue ==
    \/ Next
    \/ DeliverNeverCompletes
    \/ TaskTimedOut
    \/ Redeliver
    \/ DeadLetter

\* SQS keeps delivering a visible message and Lambda keeps running the handler
SpecQueue == InitQueue /\ [][NextQueue]_vars /\ WF_vars(NextQueue)

----------------------------------------------------------------------------
(* The owner of a subscription edits it while the processor runs *)

\* the item of a subscription is put again with another channel and target
EditSubscription ==
    /\ \E id \in SubscriptionIds : \E ch \in VALID_CHANNELS :
          /\ ch # subscriptionsTable[id].channel
          /\ subscriptionsTable' =
                [subscriptionsTable EXCEPT ![id].channel = ch,
                                           ![id].target = TargetOf(ch)]
    /\ UNCHANGED <<eventsTable, notificationsTable, queue, records, pos, pc, event,
                   subscriptions, idx, notificationCount, notifyError, outcome, trace,
                   receiveCount, envVars>>

NextEdit ==
    \/ Next
    \/ EditSubscription

SpecEdit == InitQueue /\ [][NextEdit]_vars

----------------------------------------------------------------------------
(* The lookup: subscriptions of any type, active or not, behind one channel *)

InitLookup ==
    /\ subscriptionsTable \in SubscriptionTables(FilterSeverities, {"EMAIL"})
    /\ queue \in Batches(EventSeverities)
    /\ InitProcessor
    /\ InitService
    /\ other = NoInvocation

SpecLookup == InitLookup /\ [][Next]_vars

----------------------------------------------------------------------------
(* Two invocations at once *)

\* the local state of the running invocation
LocalState ==
    [records |-> records, pos |-> pos, pc |-> pc, event |-> event,
     subscriptions |-> subscriptions, idx |-> idx,
     notificationCount |-> notificationCount, notifyError |-> notifyError,
     outcome |-> outcome]

\* an invocation is over
HasEnded(position) == position \in {"returned", "thrown"}

\* Lambda runs the two invocations side by side: the one that is about to
\* write to a table (or is over) waits, and the other one takes the next steps
Switch ==
    /\ pc \in {"storeEvent", "recordSent", "recordFailed", "returned", "thrown"}
    /\ other.pc # "idle"
    /\ ~HasEnded(other.pc)
    /\ other' = LocalState
    /\ records' = other.records
    /\ pos' = other.pos
    /\ pc' = other.pc
    /\ event' = other.event
    /\ subscriptions' = other.subscriptions
    /\ idx' = other.idx
    /\ notificationCount' = other.notificationCount
    /\ notifyError' = other.notifyError
    /\ outcome' = other.outcome
    /\ UNCHANGED <<subscriptionsTable, eventsTable, notificationsTable, queue, trace,
                   receiveCount, dlq, attempts, request, response, ingestPc,
                   subscriptionCall>>

\* a message of the queue was received by one invocation and, still in the
\* queue, is received by a second one
InitConcurrent ==
    /\ subscriptionsTable \in OneEligibleTables
    /\ queue \in { b \in Batches(EventSeverities) : Len(b) = 1 }
    /\ InitProcessor
    /\ InitService
    /\ other = [NoInvocation EXCEPT !.records = queue, !.pos = 1, !.pc = "parse"]

NextConcurrent ==
    \/ Next
    \/ Switch

SpecConcurrent == InitConcurrent /\ [][NextConcurrent]_vars

\* one event of any valid severity, and active subscriptions of its type with
\* any valid severity filter: all 16 pairs of severities meet in the loop
InitSeverity ==
    /\ subscriptionsTable \in
          { t \in SubscriptionTables(VALID_SEVERITIES, {"EMAIL"}) :
              \A id \in SubscriptionIds :
                  t[id].active /\ t[id].eventType \in PublishedEventTypes }
    /\ queue \in { b \in Batches(VALID_SEVERITIES) : Len(b) = 1 /\ IsJSON(b[1]) }
    /\ InitProcessor
    /\ InitService
    /\ other = NoInvocation

SpecSeverity == InitSeverity /\ [][Next]_vars

----------------------------------------------------------------------------
(* Vocabulary of the properties *)

\* the rank of a severity level: LOW=0, MEDIUM=1, HIGH=2, CRITICAL=3
severityRank(level) ==
    CASE level = "LOW" -> 0
      [] level = "MEDIUM" -> 1
      [] level = "HIGH" -> 2
      [] level = "CRITICAL" -> 3

\* a subscription is eligible for an event
IsEligible(ev, s) ==
    /\ s.eventType = ev.eventType
    /\ s.active = TRUE
    /\ severityRank(ev.severity) >= severityRank(s.severityFilter)

\* the messages of the batch that parsed, and their events; the eventId of the
\* message at position i is i
ParsedMessages == {i \in 1..Len(records) : IsJSON(records[i])}

EventOfMessage(i) == JSONParse(records[i])

\* the work on message i is over: processEvent returned or an error left it
Finished(i) == i <= Len(outcome)

CallsOf(ops, eventId, subscriptionId) ==
    {j \in 1..Len(trace) : /\ trace[j].op \in ops
                           /\ trace[j].eventId = eventId
                           /\ trace[j].subscriptionId = subscriptionId}

TransportOps == {"SendEmail", "Fetch"}

\* the invocations of a delivery transport for (event, subscription)
TransportCalls(eventId, subscriptionId) ==
    CallsOf(TransportOps, eventId, subscriptionId)

FailedTransportCalls(eventId, subscriptionId) ==
    {j \in TransportCalls(eventId, subscriptionId) : trace[j].result # "ok"}

\* the audit writes for (event, subscription) that failed
FailedAuditWrites(eventId, subscriptionId) ==
    {j \in CallsOf({"PutNotification"}, eventId, subscriptionId) : trace[j].result # "ok"}

\* the calls of the history made for an event, whatever the subscription
CallsForEvent(ops, eventId) ==
    {j \in 1..Len(trace) : trace[j].op \in ops /\ trace[j].eventId = eventId}

NotificationsOf(eventId) == {n \in notificationsTable : n.eventId = eventId}

NotificationsFor(eventId, subscriptionId) ==
    {n \in NotificationsOf(eventId) : n.subscriptionId = subscriptionId}

EligibleSubscriptions(ev) ==
    {id \in SubscriptionIds : IsEligible(ev, subscriptionsTable[id])}

\* processEvent for message i got past storeEvent and findMatchingSubscriptions
PassedLookup(i) ==
    /\ Finished(i)
    /\ outcome[i].result \in {"returned", "recordNotification"}

----------------------------------------------------------------------------
(* Properties of processEvent *)

\* C1: for every processEvent call that got past storeEvent and
\* findMatchingSubscriptions and is over, and every subscription of the table, a
\* delivery transport was invoked for the subscription if and only if the
\* subscription is eligible for the event; a subscription that is not eligible
\* has no transport invocation and no notification record.
C1_TransportIffEligible ==
    \A i \in ParsedMessages :
        PassedLookup(i) =>
            \A id \in SubscriptionIds :
                LET ev == EventOfMessage(i)
                    eligible == IsEligible(ev, subscriptionsTable[id])
                IN  /\ (TransportCalls(ev.eventId, id) # {}) <=> eligible
                    /\ ~eligible => NotificationsFor(ev.eventId, id) = {}

\* C2: failure isolation. When a processEvent call is over and the delivery for
\* an eligible subscription A failed, every other eligible subscription B of the
\* event had its delivery attempted and has its notification record.
C2_FailureIsolation ==
    \A i \in ParsedMessages :
        PassedLookup(i) =>
            LET ev == EventOfMessage(i)
            IN  \A a \in EligibleSubscriptions(ev), b \in EligibleSubscriptions(ev) :
                    (a # b /\ FailedTransportCalls(ev.eventId, a) # {}) =>
                        /\ TransportCalls(ev.eventId, b) # {}
                        /\ NotificationsFor(ev.eventId, b) # {}

\* C3: a failed audit write is only logged. When a processEvent call is over and
\* an audit write of it failed, the call has returned (the loop went on over the
\* remaining subscriptions, and the message is not left for a redelivery), and
\* the delivery of that subscription was made once.
C3_AuditFailureOnlyLogged ==
    \A i \in ParsedMessages :
        Finished(i) =>
            \A id \in SubscriptionIds :
                FailedAuditWrites(EventOfMessage(i).eventId, id) # {} =>
                    /\ outcome[i].result = "returned"
                    /\ Cardinality(TransportCalls(EventOfMessage(i).eventId, id)) <= 1

\* C4: an error leaves processEvent only when storeEvent or
\* findMatchingSubscriptions failed: a call that ended by an error has a failed
\* write of the event or a failed query of the subscriptions in its history.
C4_OnlyCriticalPathErrorsPropagate ==
    \A i \in ParsedMessages :
        (Finished(i) /\ outcome[i].result # "returned") =>
            \E j \in CallsForEvent({"PutEvent", "Query"}, EventOfMessage(i).eventId) :
                trace[j].result # "ok"

\* C5: when processEvent has run for an event and returned, the number of
\* notification records of the event equals the number of subscriptions that
\* are active, of the event's type and at or below its severity.
C5_RecordCountEqualsEligible ==
    \A i \in ParsedMessages :
        (Finished(i) /\ outcome[i].result = "returned") =>
            Cardinality(NotificationsOf(EventOfMessage(i).eventId))
                = Cardinality(EligibleSubscriptions(EventOfMessage(i)))

\* C5, its case: a call returned for an event with one eligible subscription,
\* whose delivery failed and is recorded, while another subscription of the
\* event's type is not eligible.
C5_Witness ==
    /\ pc = "returned"
    /\ \E i \in ParsedMessages :
        /\ Cardinality(EligibleSubscriptions(EventOfMessage(i))) = 1
        /\ \E n \in NotificationsOf(EventOfMessage(i).eventId) : n.status = "FAILED"
        /\ \E id \in SubscriptionIds :
              /\ subscriptionsTable[id].eventType = EventOfMessage(i).eventType
              /\ ~IsEligible(EventOfMessage(i), subscriptionsTable[id])

\* C6: the recorded status reflects the delivery. A SENT record exists only for
\* a delivery that succeeded, a FAILED record only for a delivery attempt that
\* failed, and a failed delivery whose audit writes worked is recorded FAILED
\* once the call is over.
C6_StatusReflectsDelivery ==
    /\ \A n \in notificationsTable :
        /\ n.status = "SENT" =>
              \E j \in TransportCalls(n.eventId, n.subscriptionId) : trace[j].result = "ok"
        /\ n.status = "FAILED" =>
              FailedTransportCalls(n.eventId, n.subscriptionId) # {}
    /\ \A i \in ParsedMessages : \A id \in SubscriptionIds :
          ( /\ Finished(i)
            /\ FailedTransportCalls(EventOfMessage(i).eventId, id) # {}
            /\ FailedAuditWrites(EventOfMessage(i).eventId, id) = {} ) =>
              \E n \in NotificationsFor(EventOfMessage(i).eventId, id) : n.status = "FAILED"

\* C7: a subscription whose channel is neither EMAIL nor WEBHOOK gets no
\* transport invocation and no SENT record, and is not counted as sent: the
\* count a call returns is at most the number of its successful deliveries.
C7_UnsupportedChannelFails ==
    \A i \in ParsedMessages :
        /\ \A id \in SubscriptionIds :
              subscriptionsTable[id].channel \notin VALID_CHANNELS =>
                  /\ TransportCalls(EventOfMessage(i).eventId, id) = {}
                  /\ \A n \in NotificationsFor(EventOfMessage(i).eventId, id) :
                        n.status # "SENT"
        /\ (Finished(i) /\ outcome[i].result = "returned") =>
              outcome[i].notificationCount <=
                  Cardinality({j \in CallsForEvent(TransportOps, EventOfMessage(i).eventId) :
                                  trace[j].result = "ok"})

\* C8: when the severity of the event or the severityFilter of the subscription
\* is outside LOW, MEDIUM, HIGH, CRITICAL, the subscription is a non-match: no
\* delivery is attempted and no notification record is written for it.
C8_InvalidSeverityIsNonMatch ==
    \A i \in ParsedMessages : \A id \in SubscriptionIds :
        ( \/ EventOfMessage(i).severity \notin VALID_SEVERITIES
          \/ subscriptionsTable[id].severityFilter \notin VALID_SEVERITIES ) =>
            /\ TransportCalls(EventOfMessage(i).eventId, id) = {}
            /\ CallsOf({"PutNotification"}, EventOfMessage(i).eventId, id) = {}
            /\ NotificationsFor(EventOfMessage(i).eventId, id) = {}

\* C9: event persistence comes first and is fatal. Every query, transport
\* invocation and audit write of the history comes after a successful write of
\* its event, which left the event in the Events table with status PROCESSED;
\* and a failed write of the event ended the call by the error of storeEvent,
\* with no other call made for the event and no notification record of it.
C9_EventPersistenceFirst ==
    \A j \in 1..Len(trace) :
        LET e == trace[j].eventId
        IN  /\ trace[j].op # "PutEvent" =>
                  /\ \E k \in 1..(j - 1) :
                        /\ trace[k].op = "PutEvent"
                        /\ trace[k].eventId = e
                        /\ trace[k].result = "ok"
                  /\ \E item \in eventsTable :
                        item.eventId = e /\ item.status = "PROCESSED"
            /\ (trace[j].op = "PutEvent" /\ trace[j].result # "ok") =>
                  /\ Finished(e)
                  /\ outcome[e].result = "storeEvent"
                  /\ pc = "thrown"
                  /\ CallsForEvent({"Query", "SendEmail", "Fetch", "PutNotification"}, e) = {}
                  /\ NotificationsOf(e) = {}

\* C9, its case: the write of an event failed although a subscription was
\* waiting for the event, after an earlier message had been delivered.
C9_Witness ==
    /\ pc = "thrown"
    /\ Len(outcome) = 2
    /\ outcome[2].result = "storeEvent"
    /\ EligibleSubscriptions(EventOfMessage(2)) # {}
    /\ \E id \in SubscriptionIds : TransportCalls(1, id) # {}

\* C10: a failed query of the Subscriptions table ended the call by the error of
\* findMatchingSubscriptions, which the handler rethrew; no transport was invoked
\* and no notification record written for the event, and the Events table holds
\* the event with status PROCESSED.
C10_LookupFailureAborts ==
    \A j \in 1..Len(trace) :
        (trace[j].op = "Query" /\ trace[j].result # "ok") =>
            LET e == trace[j].eventId
            IN  /\ Finished(e)
                /\ outcome[e].result = "findMatchingSubscriptions"
                /\ pc = "thrown"
                /\ CallsForEvent({"SendEmail", "Fetch", "PutNotification"}, e) = {}
                /\ NotificationsOf(e) = {}
                /\ \E item \in eventsTable :
                      item.eventId = e /\ item.status = "PROCESSED"

\* C10, its case: the query failed for an event that has an eligible subscription.
C10_Witness ==
    /\ pc = "thrown"
    /\ \E i \in ParsedMessages :
        /\ Finished(i)
        /\ outcome[i].result = "findMatchingSubscriptions"
        /\ EligibleSubscriptions(EventOfMessage(i)) # {}

----------------------------------------------------------------------------
(* Properties of the audit records and of the handler *)

AllOps == {"PutEvent", "Query", "SendEmail", "Fetch", "PutNotification"}

\* nothing was written or sent for the message at position k
Untouched(k) ==
    /\ CallsForEvent(AllOps, k) = {}
    /\ \A item \in eventsTable : item.eventId # k
    /\ NotificationsOf(k) = {}

\* C12: recordNotification is called exactly once for each subscription that
\* passed the severity threshold and whose delivery was attempted in a call
\* that is over, and never for a subscription that does not pass the threshold.
C12_RecordedExactlyOnce ==
    \A i \in ParsedMessages : \A id \in SubscriptionIds :
        LET ev == EventOfMessage(i)
            writes == CallsOf({"PutNotification"}, ev.eventId, id)
        IN  /\ (Finished(i) /\ TransportCalls(ev.eventId, id) # {}) =>
                  Cardinality(writes) = 1
            /\ ~meetsSeverityThreshold(ev.severity, subscriptionsTable[id].severityFilter) =>
                  writes = {}

\* C13: the messages of a batch are processed one at a time in batch order, and
\* the first message whose parsing or processEvent throws ends the batch: the
\* handler has thrown, and nothing is written or sent for any later message.
C13_FirstErrorAbortsBatch ==
    /\ \A j \in 1..(Len(trace) - 1) : trace[j].eventId <= trace[j + 1].eventId
    /\ \A k \in 1..Len(records) : k > pos => Untouched(k)
    /\ \A i \in 1..Len(outcome) :
          outcome[i].result # "returned" =>
              /\ pc = "thrown"
              /\ i = Len(outcome)
              /\ \A k \in (i + 1)..Len(records) : Untouched(k)

\* C13, its case: the first of two well-formed messages made the handler throw
\* after a delivery, and the second has an eligible subscription waiting.
C13_Witness ==
    /\ pc = "thrown"
    /\ Len(records) = 2
    /\ Len(outcome) = 1
    /\ IsJSON(records[2])
    /\ EligibleSubscriptions(EventOfMessage(2)) # {}
    /\ \E id \in SubscriptionIds : TransportCalls(1, id) # {}

\* C14: the handler returns (and the batch is acknowledged) if and only if every
\* body of the batch parsed and every processEvent call returned; a body that
\* is not JSON makes the handler throw with nothing written or sent for it.
C14_ReturnsIffAllProcessed ==
    /\ pc = "returned" <=>
          /\ records # <<>>
          /\ Len(outcome) = Len(records)
          /\ \A i \in 1..Len(records) :
                IsJSON(records[i]) /\ outcome[i].result = "returned"
    /\ pc = "returned" => queue = <<>>
    /\ \A i \in 1..Len(records) :
          (~IsJSON(records[i]) /\ pos >= i /\ pc # "parse") =>
              /\ Finished(i)
              /\ outcome[i].result = "JSON.parse"
              /\ pc = "thrown"
              /\ Untouched(i)

\* C14, its case: a batch of two messages was processed, with a delivery for the
\* second, and acknowledged.
C14_Witness ==
    /\ pc = "returned"
    /\ Len(records) = 2
    /\ \E id \in SubscriptionIds : TransportCalls(2, id) # {}

\* C20: a notification record carries an errorMessage if and only if its status
\* is FAILED, and the errorMessage of a FAILED record is not empty.
C20_ErrorMessageIffFailed ==
    \A n \in notificationsTable :
        /\ n.status = "FAILED" <=> "errorMessage" \in DOMAIN n
        /\ "errorMessage" \in DOMAIN n => n.errorMessage # ""

\* C20, its case: the table holds a SENT record and a FAILED record.
C20_Witness ==
    /\ \E n \in notificationsTable : n.status = "SENT"
    /\ \E n \in notificationsTable : n.status = "FAILED"

\* the loop of processEvent has decided on the subscription at position k
Evaluated(k) ==
    \/ k < idx
    \/ k = idx /\ pc \in {"recordSent", "recordFailed"}

\* C15: for every pair of valid severities, meetsSeverityThreshold is true
\* exactly when the rank of the event's severity is at least the rank of the
\* filter (LOW=0, MEDIUM=1, HIGH=2, CRITICAL=3): the loop delivers to a
\* subscription it has decided on if and only if the ranks compare so.
C15_ThresholdIsRankComparison ==
    /\ \A e \in VALID_SEVERITIES : \A f \in VALID_SEVERITIES :
          meetsSeverityThreshold(e, f) <=> severityRank(e) >= severityRank(f)
    /\ \A k \in 1..Len(subscriptions) :
          Evaluated(k) =>
              (TransportCalls(event.eventId, subscriptions[k].subscriptionId) # {}
                  <=> severityRank(event.severity) >=
                          severityRank(subscriptions[k].severityFilter))

\* C15, its case: the loop has skipped a subscription whose filter is one level
\* above the event's severity and delivered to one whose filter equals it.
C15_Witness ==
    /\ event # NoEvent
    /\ event.severity = "HIGH"
    /\ \E j \in 1..Len(subscriptions) : \E k \in 1..Len(subscriptions) :
          /\ Evaluated(j) /\ Evaluated(k)
          /\ subscriptions[j].severityFilter = "CRITICAL"
          /\ TransportCalls(event.eventId, subscriptions[j].subscriptionId) = {}
          /\ subscriptions[k].severityFilter = "HIGH"
          /\ TransportCalls(event.eventId, subscriptions[k].subscriptionId) # {}

----------------------------------------------------------------------------
(* Properties of redelivery *)

KeysOf(items) == {<<n.eventId, n.subscriptionId>> : n \in items}

\* an earlier invocation has processed message i to the end
CompletedBefore(i) ==
    \E a \in 1..Len(attempts) :
        i <= Len(attempts[a]) /\ attempts[a][i].result = "returned"

\* C11: the Notifications table never holds two records with the same
\* (eventId, subscriptionId), and once an event has been processed to the end,
\* processing it again leaves the table with the same keys for it: those of its
\* eligible subscriptions.
C11_IdempotentOverwrite ==
    /\ \A n1 \in notificationsTable : \A n2 \in notificationsTable :
          (n1.eventId = n2.eventId /\ n1.subscriptionId = n2.subscriptionId) => n1 = n2
    /\ \A i \in ParsedMessages :
          CompletedBefore(i) =>
              KeysOf(NotificationsOf(i)) =
                  {<<i, id>> : id \in EligibleSubscriptions(EventOfMessage(i))}

\* C11, its case: the first message of the batch was processed to the end by an
\* earlier invocation and again by this one, which has rewritten a record.
C11_Witness ==
    /\ CompletedBefore(1)
    /\ Len(outcome) >= 1
    /\ outcome[1].result = "returned"
    /\ \E id \in SubscriptionIds :
          /\ Cardinality({j \in CallsOf({"PutNotification"}, 1, id) :
                            trace[j].result = "ok"}) >= 2
          /\ NotificationsFor(1, id) # {}

\* the batch is settled: processed and deleted, or in the dead-letter queue
Processed == pc = "returned" /\ queue = <<>> /\ dlq = <<>>

DeadLettered ==
    /\ pc = "idle"
    /\ queue = <<>>
    /\ dlq = records
    /\ dlq # <<>>
    /\ receiveCount = MaxReceiveCount

\* C19: with the redrive policy of 3 receives, every batch of accepted events
\* eventually is processed (the handler returns for it) or is in the dead-letter
\* queue, for good: a message in the dead-letter queue is not delivered again.
C19_ProcessedOrDeadLettered ==
    /\ <>[](Processed \/ DeadLettered)
    /\ [](dlq # <<>> => DeadLettered)

\* C19, its case: a batch went to the dead-letter queue after its third receive,
\* the first message having been processed each time.
C19_Witness ==
    /\ DeadLettered
    /\ Len(attempts) = MaxReceiveCount
    /\ Len(records) = 2
    /\ CompletedBefore(1)

----------------------------------------------------------------------------
(* Properties of a delivery that does not complete *)

PendingTransportCalls(eventId, subscriptionId) ==
    {j \in TransportCalls(eventId, subscriptionId) : trace[j].result = "pending"}

\* C17: a processEvent call finishes even when a transport call never
\* completes: once the work on the message is over, the call has returned, the
\* subscription whose delivery did not complete has a FAILED record, and every
\* eligible subscription has a record.
C17_DeliveryTimesOut ==
    \A i \in ParsedMessages : \A id \in SubscriptionIds :
        (PendingTransportCalls(i, id) # {} /\ Finished(i)) =>
            /\ outcome[i].result = "returned"
            /\ \E n \in NotificationsFor(i, id) : n.status = "FAILED"
            /\ \A id2 \in EligibleSubscriptions(EventOfMessage(i)) :
                  NotificationsFor(i, id2) # {}

----------------------------------------------------------------------------
(* Properties of the ingest handler *)

\* the spellings of the four severities among the strings of the model
ValidSeveritySpellings == {"LOW", "high", "Critical"}

\* a payload that passes validation
IsValidPayload(r) ==
    /\ r.kind = "json"
    /\ r.eventType.type = "string" /\ r.eventType.value # ""
    /\ r.severity.type = "string" /\ r.severity.value \in ValidSeveritySpellings
    /\ r.title.type = "string" /\ r.title.value # ""
    /\ r.details.type \in {"undefined", "object"}

\* the handler has answered the request
Answered == ingestPc = "idle" /\ request.kind # "none"

----------------------------------------------------------------------------
(* Properties of concurrent invocations *)

BothEnded == HasEnded(pc) /\ HasEnded(other.pc)

\* the writes of recordNotification that succeeded on a key, in order
WritesTo(eventId, subscriptionId) ==
    {j \in CallsOf({"PutNotification"}, eventId, subscriptionId) : trace[j].result = "ok"}

StoredEvents == {trace[j].eventId : j \in {k \in 1..Len(trace) :
                    trace[k].op = "PutEvent" /\ trace[k].result = "ok"}}

WithoutTime(item) == [item EXCEPT !.processedAt = 0]

\* C16: when two concurrent invocations are over, the contents of the Events
\* and Notifications tables (timestamps aside) do not depend on the order in
\* which their writes were interleaved: every write that succeeded on a key
\* wrote what the table holds for that key.
C16_InterleavingIndependent ==
    BothEnded =>
        /\ \A e \in eventsTable :
              WithoutTime(e) = WithoutTime(StoreEventItem(JSONParse(records[e.eventId]), 0))
        /\ \A n \in notificationsTable :
              \A j \in WritesTo(n.eventId, n.subscriptionId) : trace[j].status = n.status

\* C16 as it holds: concurrent invocations keep the tables well-formed without
\* coordination.  Each table holds one item per key written, an Events item is
\* the same whoever wrote it (processedAt aside), and a Notifications record is
\* the one of the last write that succeeded on its key.
C16_LastWriterWins ==
    /\ \A e1 \in eventsTable : \A e2 \in eventsTable :
          e1.eventId = e2.eventId => e1 = e2
    /\ {e.eventId : e \in eventsTable} = StoredEvents
    /\ \A e \in eventsTable :
          WithoutTime(e) = WithoutTime(StoreEventItem(JSONParse(other.records[e.eventId]), 0))
    /\ \A n1 \in notificationsTable : \A n2 \in notificationsTable :
          (n1.eventId = n2.eventId /\ n1.subscriptionId = n2.subscriptionId) => n1 = n2
    /\ KeysOf(notificationsTable) =
          {<<trace[j].eventId, trace[j].subscriptionId>> : j \in
              {k \in 1..Len(trace) :
                  trace[k].op = "PutNotification" /\ trace[k].result = "ok"}}
    /\ \A n \in notificationsTable :
          LET writes == WritesTo(n.eventId, n.subscriptionId)
              last == CHOOSE j \in writes : \A k \in writes : k <= j
          IN  /\ n.status = trace[last].status
              /\ n.attemptedAt = last - 1

\* C16, its case: both invocations are over, both stored the event, one
\* recorded the delivery as SENT and the other, writing later, as FAILED.
C16_Witness ==
    /\ BothEnded
    /\ Cardinality({j \in 1..Len(trace) :
                       trace[j].op = "PutEvent" /\ trace[j].result = "ok"}) = 2
    /\ \E n \in notificationsTable :
          /\ n.status = "FAILED"
          /\ \E j \in WritesTo(n.eventId, n.subscriptionId) : trace[j].status = "SENT"

----------------------------------------------------------------------------
(* Order of delivery and audit within processEvent *)

\* C21: the audit write of a subscription starts only after the delivery
\* attempt of that subscription has completed, with success or with failure,
\* and when processEvent returns no audit write of the event is still under
\* way: every delivery attempted has an audit write that completed after it.
C21_AuditAfterDelivery ==
    /\ \A j \in 1..Len(trace) :
          trace[j].op = "PutNotification" =>
              \E k \in 1..(j - 1) :
                  /\ trace[k].op \in TransportOps
                  /\ trace[k].eventId = trace[j].eventId
                  /\ trace[k].subscriptionId = trace[j].subscriptionId
                  /\ trace[k].result # "pending"
                  /\ (trace[j].status = "SENT" => trace[k].result = "ok")
    /\ pc \in {"recordSent", "recordFailed"} => ~Finished(pos)
    /\ \A i \in ParsedMessages :
          (Finished(i) /\ outcome[i].result = "returned") =>
              \A id \in SubscriptionIds :
                  \A k \in TransportCalls(i, id) :
                      \E j \in WritesTo(i, id) : j > k

\* C21, its case: processEvent returned after a delivery that failed and was
\* recorded, the audit write following the transport call.
C21_Witness ==
    /\ Len(outcome) >= 1
    /\ outcome[1].result = "returned"
    /\ \E id \in SubscriptionIds :
          /\ FailedTransportCalls(1, id) # {}
          /\ \E n \in NotificationsFor(1, id) : n.status = "FAILED"

\* the transport calls of one kind made for a subscription
CallsBy(op, eventId, subscriptionId) == CallsOf({op}, eventId, subscriptionId)

SentRecords(eventId, subscriptionId) ==
    {n \in NotificationsFor(eventId, subscriptionId) : n.status = "SENT"}

\* within one call a subscription's transport is invoked at most once, and it
\* is the mail transport for EMAIL and the HTTP transport for WEBHOOK
OneTransportByChannel(i, id) ==
    /\ Cardinality(TransportCalls(i, id)) <= 1
    /\ subscriptionsTable[id].channel = "EMAIL" => CallsBy("Fetch", i, id) = {}
    /\ subscriptionsTable[id].channel = "WEBHOOK" => CallsBy("SendEmail", i, id) = {}

\* the send of the EMAIL subscription succeeded in the call for message i
EmailSent(i, id) ==
    /\ subscriptionsTable[id].channel = "EMAIL"
    /\ \E j \in CallsBy("SendEmail", i, id) : trace[j].result = "ok"

\* C22: within one processEvent call the transport of a subscription is
\* invoked at most once and chosen by the channel alone, and once the call is
\* over an EMAIL subscription whose send succeeded has exactly one mail
\* transport invocation and exactly one SENT record.
C22_OneTransportOneSentRecord ==
    \A i \in ParsedMessages : \A id \in SubscriptionIds :
        /\ OneTransportByChannel(i, id)
        /\ (EmailSent(i, id) /\ Finished(i)) =>
              /\ Cardinality(CallsBy("SendEmail", i, id)) = 1
              /\ Cardinality(SentRecords(i, id)) = 1

\* C22 as it holds: the same, for an EMAIL subscription whose send succeeded
\* and whose SENT write succeeded; when the SENT write was rejected the
\* subscription has no SENT record.
C22_OneTransportPerSubscription ==
    \A i \in ParsedMessages : \A id \in SubscriptionIds :
        /\ OneTransportByChannel(i, id)
        /\ (EmailSent(i, id) /\ Finished(i)) =>
              /\ Cardinality(CallsBy("SendEmail", i, id)) = 1
              /\ IF \E j \in WritesTo(i, id) : trace[j].status = "SENT"
                 THEN /\ Cardinality(SentRecords(i, id)) = 1
                      /\ Cardinality(NotificationsFor(i, id)) = 1
                 ELSE SentRecords(i, id) = {}

\* C22, its case: the call for an event is over, the mail of its EMAIL
\* subscription was sent once and recorded SENT.
C22_Witness ==
    /\ Finished(1)
    /\ \E id \in SubscriptionIds :
          /\ EmailSent(1, id)
          /\ Cardinality(CallsBy("SendEmail", 1, id)) = 1
          /\ Cardinality(SentRecords(1, id)) = 1

----------------------------------------------------------------------------
(* The value processEvent returns *)

\* the subscriptions for which this call wrote a record with the given status
WrittenWith(status, i) ==
    {id \in SubscriptionIds : \E j \in WritesTo(i, id) : trace[j].status = status}

\* processEvent returned for message i
Returned(i) == Finished(i) /\ outcome[i].result = "returned"

\* the value a call returns that attempted no delivery: none sent, none failed
ReturnedForNoAttempt == Ended("returned", 0)

\* C24: the value processEvent returns reports the number of subscriptions
\* for which a SENT record was written in this call as its sent count, and
\* the delivery failures are visible in it: a call that wrote a FAILED record
\* does not return the value of a call that attempted no delivery, and two
\* calls that return the same value wrote FAILED records for the same number
\* of subscriptions.
C24_ReportCountsSentAndFailed ==
    \A i \in ParsedMessages : Returned(i) =>
        /\ outcome[i].notificationCount = Cardinality(WrittenWith("SENT", i))
        /\ outcome[i] = ReturnedForNoAttempt => WrittenWith("FAILED", i) = {}
        /\ \A k \in ParsedMessages :
              (Returned(k) /\ outcome[k] = outcome[i]) =>
                  Cardinality(WrittenWith("FAILED", k)) =
                      Cardinality(WrittenWith("FAILED", i))

\* C24 as it holds: the value processEvent returns is one number, the number
\* of subscriptions for which a SENT record was written in this call; a
\* subscription whose record was written FAILED is not counted.
C24_ReturnsSentCount ==
    \A i \in ParsedMessages : Returned(i) =>
        /\ outcome[i].notificationCount \in Nat
        /\ outcome[i].notificationCount = Cardinality(WrittenWith("SENT", i))
        /\ outcome[i].notificationCount + Cardinality(WrittenWith("FAILED", i)) =
              Cardinality({id \in SubscriptionIds : NotificationsFor(i, id) # {}})

\* C24, its case: processEvent returned 1 after it wrote a SENT record.
C24_Witness ==
    /\ Returned(1)
    /\ outcome[1].notificationCount = 1
    /\ WrittenWith("SENT", 1) # {}

----------------------------------------------------------------------------
(* The item storeEvent writes *)

\* the fields of the event the ingest handler builds, other than status
IncomingFields == {"eventId", "eventType", "severity", "title", "details", "receivedAt"}

\* every eligible subscription of message i had its delivery fail
EveryDeliveryFailed(i) ==
    /\ EligibleSubscriptions(EventOfMessage(i)) # {}
    /\ \A id \in EligibleSubscriptions(EventOfMessage(i)) :
          /\ FailedTransportCalls(i, id) # {}
          /\ SentRecords(i, id) = {}

----------------------------------------------------------------------------
(* Transport invocations across the receives of a message *)

\* C26: over all receives of a batch the transport is invoked at most
\* MaxReceiveCount times for any (event, subscription) pair, also for a
\* message that is redelivered because a later message of its batch made the
\* handler throw, and at least once for every eligible subscription of every
\* event of a batch that was acknowledged (the handler returned).
C26_TransportCallsWithinReceives ==
    /\ receiveCount <= MaxReceiveCount
    /\ \A i \in ParsedMessages : \A id \in SubscriptionIds :
          /\ Cardinality(TransportCalls(i, id)) <= receiveCount
          /\ Cardinality(TransportCalls(i, id)) <= MaxReceiveCount
    /\ Processed =>
          \A i \in 1..Len(records) :
              /\ i \in ParsedMessages
              /\ \A id \in EligibleSubscriptions(EventOfMessage(i)) :
                    TransportCalls(i, id) # {}

\* C26, its case: a batch is in the dead-letter queue after its last receive,
\* and the transport was invoked on every receive for a subscription of its
\* first message, which was processed each time before the second one threw.
C26_Witness ==
    /\ DeadLettered
    /\ Len(records) = 2
    /\ CompletedBefore(1)
    /\ \E id \in SubscriptionIds :
          Cardinality(TransportCalls(1, id)) = MaxReceiveCount

\* C26, its other case: a batch was acknowledged on its last receive, its
\* eligible subscription having been tried on every receive.
C26_Acknowledged ==
    /\ Processed
    /\ receiveCount = MaxReceiveCount
    /\ \E id \in EligibleSubscriptions(EventOfMessage(1)) :
          Cardinality(TransportCalls(1, id)) = MaxReceiveCount

----------------------------------------------------------------------------
(* What the two endpoints let in *)

\* a subscription payload that is valid: the four fields are strings, the
\* filter and the channel are in their sets whatever their case, and the
\* target fits the channel
IsValidSubscriptionPayload(r) ==
    /\ r.kind = "json"
    /\ r.eventType.type = "string" /\ r.eventType.value # ""
    /\ r.severityFilter.type = "string"
    /\ r.severityFilter.value \in {"high", "MEDIUM"}
    /\ r.channel.type = "string"
    /\ r.target.type = "string"
    /\ \/ r.channel.value = "email" /\ r.target.value = "ops@example.com"
       \/ r.channel.value = "WEBHOOK" /\ r.target.value = "https://hooks.example.com/in"

\* a subscription payload that is not valid, a missing body included
IsInvalidSubscriptionPayload(r) ==
    r.kind \in {"json", "null"} /\ ~IsValidSubscriptionPayload(r)

SubscriptionAnswered ==
    subscriptionCall.pc = "idle" /\ subscriptionCall.request.kind # "none"

StoredSubscriptionsAreValid ==
    \A id \in DOMAIN subscriptionsTable :
        LET sub == subscriptionsTable[id]
        IN  /\ sub.severityFilter \in VALID_SEVERITIES
            /\ sub.channel \in VALID_CHANNELS
            /\ sub.eventType = ToLowerCase(sub.eventType)
            /\ sub.active = TRUE

QueuedMessagesAreValid ==
    \A k \in 1..Len(queue) :
        /\ IsJSON(queue[k])
        /\ LET ev == JSONParse(queue[k])
           IN  /\ ev.severity \in VALID_SEVERITIES
               /\ ev.severity = ToUpperCase(ev.severity)
               /\ ev.eventType = ToLowerCase(ev.eventType)
               /\ ev.status = "PENDING"

\* the cases of the processor for a channel it does not know and for a
\* severity that is not in SEVERITY_LEVELS cannot arise from these data
ProcessorCasesUnreachable ==
    /\ \A id \in DOMAIN subscriptionsTable :
          /\ subscriptionsTable[id].channel \in {"EMAIL", "WEBHOOK"}
          /\ IndexOf(SEVERITY_LEVELS, subscriptionsTable[id].severityFilter) >= 0
    /\ \A k \in 1..Len(queue) :
          IsJSON(queue[k]) => IndexOf(SEVERITY_LEVELS, JSONParse(queue[k]).severity) >= 0

\* the Subscriptions table changes only by the record of a valid payload
StoresOnlyValidSubscriptions ==
    subscriptionsTable' # subscriptionsTable =>
        /\ IsValidSubscriptionPayload(subscriptionCall.request)
        /\ subscriptionCall'.response.statusCode = 201
        /\ Len(subscriptionsTable') = Len(subscriptionsTable) + 1

\* C25: every subscription in the Subscriptions store has a severityFilter and
\* a channel of the valid sets, a lower-cased eventType and active = true, and
\* every queued message has an upper-cased severity of the valid set, a
\* lower-cased eventType and status PENDING, so that the processor's cases for
\* an unknown channel or severity cannot arise; an invalid subscription payload
\* is answered 400 and nothing is stored for it.
C25_EndpointsLetInOnlyValid ==
    /\ [](/\ StoredSubscriptionsAreValid
          /\ QueuedMessagesAreValid
          /\ ProcessorCasesUnreachable
          /\ (SubscriptionAnswered /\ IsInvalidSubscriptionPayload(subscriptionCall.request))
                => subscriptionCall.response.statusCode = 400)
    /\ [][StoresOnlyValidSubscriptions]_vars

\* what holds of C25: the part on the stored data, and a payload that is not
\* valid has nothing stored; it is answered 400 unless validateSubscription threw
C25_StoredDataIsValid ==
    /\ [](/\ StoredSubscriptionsAreValid
          /\ QueuedMessagesAreValid
          /\ ProcessorCasesUnreachable
          /\ (SubscriptionAnswered /\ IsInvalidSubscriptionPayload(subscriptionCall.request))
                => subscriptionCall.response.statusCode =
                      IF validateSubscriptionThrows(subscriptionCall.request)
                      THEN 502 ELSE 400)
    /\ [][StoresOnlyValidSubscriptions]_vars

\* a full table written by the subscription handler, the last record for a
\* payload with lower-case channel and filter
C25_Witness ==
    /\ SubscriptionAnswered
    /\ subscriptionCall.response.statusCode = 201
    /\ subscriptionCall.request.channel.value = "email"
    /\ subscriptionCall.request.severityFilter.value = "high"
    /\ Len(subscriptionsTable) = MaxSubs
    /\ subscriptionsTable[MaxSubs].channel = "EMAIL"
    /\ subscriptionsTable[MaxSubs].severityFilter = "HIGH"

----------------------------------------------------------------------------
(* Properties of the lookup *)

\* the subscriptions of the table with the type of the event
SubscriptionsOfType(eventType) ==
    {id \in SubscriptionIds : subscriptionsTable[id].eventType = eventType}

\* the lookup for message i succeeded and the query had no item to return
LookupFoundNothing(i) ==
    /\ \E j \in CallsOf({"Query"}, i, 0) : trace[j].result = "ok"
    /\ \A id \in SubscriptionsOfType(EventOfMessage(i).eventType) :
          ~subscriptionsTable[id].active

\* processEvent for the message at pos is past its lookup
InLoop == pc \in {"loop", "recordSent", "recordFailed"}

\* C27: when the query for an event returns no item the lookup yields the
\* empty sequence and no error: processEvent returns, with no transport
\* invocation and no NotificationRecord for the event, and the event is in the
\* Events store with status PROCESSED.
C27_EmptyLookupIsNoError ==
    \A i \in ParsedMessages : LookupFoundNothing(i) =>
        /\ (pos = i /\ InLoop) => subscriptions = <<>> /\ pc = "loop"
        /\ Finished(i)
              => /\ outcome[i] = Ended("returned", 0)
                 /\ \E e \in eventsTable : e.eventId = i /\ e.status = "PROCESSED"
        /\ \A id \in SubscriptionIds : TransportCalls(i, id) = {}
        /\ NotificationsOf(i) = {}
        /\ \A j \in 1..Len(trace) :
              trace[j].eventId = i => trace[j].op \in {"PutEvent", "Query"}

\* C27, its case: no subscription has the type of the event, and processEvent
\* returned for it.
C27_Witness ==
    /\ Finished(1)
    /\ 1 \in ParsedMessages
    /\ SubscriptionsOfType(EventOfMessage(1).eventType) = {}
    /\ LookupFoundNothing(1)
    /\ outcome[1].result = "returned"

\* the subscriptions findMatchingSubscriptions returned
ReturnedIds == {subscriptions[k].subscriptionId : k \in 1..Len(subscriptions)}

\* C30: findMatchingSubscriptions returns all subscriptions, active and
\* inactive, whose eventType equals the argument.
C30_ReturnsAllOfType ==
    InLoop => ReturnedIds = SubscriptionsOfType(event.eventType)

\* C30 as it holds: findMatchingSubscriptions returns the active subscriptions
\* whose eventType equals the argument, each once and as it is in the table,
\* and no inactive one.
C30_ReturnsActiveOfType ==
    InLoop =>
        /\ ReturnedIds =
              {id \in SubscriptionsOfType(event.eventType) : subscriptionsTable[id].active}
        /\ Cardinality(ReturnedIds) = Len(subscriptions)
        /\ \A k \in 1..Len(subscriptions) :
              subscriptions[k] = subscriptionsTable[subscriptions[k].subscriptionId]

\* C30, its case: the table has an active and an inactive subscription of the
\* type of the event, and the lookup returned one subscription.
C30_Witness ==
    /\ InLoop
    /\ Len(subscriptions) = 1
    /\ \E id \in SubscriptionsOfType(event.eventType) : ~subscriptionsTable[id].active
    /\ \E id \in SubscriptionsOfType(event.eventType) : subscriptionsTable[id].active

----------------------------------------------------------------------------
(* The Subscriptions store as the processor sees it *)

\* what a step of the processor may change
processorVars ==
    <<eventsTable, notificationsTable, queue, records, pos, pc, event, subscriptions,
      idx, notificationCount, notifyError, outcome, trace, receiveCount>>

\* a record carries the channel the transport was invoked for, with its target
RecordsWhatWasAttempted ==
    \A n \in notificationsTable :
        /\ n.target = TargetOf(n.channel)
        /\ TransportCalls(n.eventId, n.subscriptionId) # {}
        /\ \A j \in TransportCalls(n.eventId, n.subscriptionId) :
              trace[j].op = TransportOp(n.channel)

\* C28: no step of the processor creates, changes or deletes a subscription
\* (a step that changes the Subscriptions store is not a step of the
\* processor and changes nothing else), and a NotificationRecord has the
\* channel and the target of the attempt, whatever the subscription is
\* changed to later.
C28_SubscriptionsAreReadOnly ==
    /\ []RecordsWhatWasAttempted
    /\ [][/\ processorVars' # processorVars => subscriptionsTable' = subscriptionsTable
          /\ subscriptionsTable' # subscriptionsTable =>
                /\ DOMAIN subscriptionsTable' = DOMAIN subscriptionsTable
                /\ notificationsTable' = notificationsTable]_vars

\* C28, its case: a delivery was recorded with the channel it was attempted
\* on, and the subscription has another channel now.
C28_Witness ==
    \E n \in notificationsTable :
        /\ n.channel # subscriptionsTable[n.subscriptionId].channel
        /\ n.target # subscriptionsTable[n.subscriptionId].target
        /\ \E j \in TransportCalls(n.eventId, n.subscriptionId) :
              trace[j].op = TransportOp(n.channel)

----------------------------------------------------------------------------
(* The first attempt and the redeliveries of a batch *)

\* every invocation that makes a call starts with the PutEvent of the first
\* message: the places in the trace where the calls of an invocation start
RunStarts == {j \in 1..Len(trace) : trace[j].op = "PutEvent" /\ trace[j].eventId = 1}

RunEnd(a) ==
    LET later == {j \in RunStarts : j > a}
    IN  IF later = {} THEN Len(trace)
        ELSE (CHOOSE j \in later : \A k \in later : j <= k) - 1

\* the calls of the invocation that starts at a
Run(a) == SubSeq(trace, a, RunEnd(a))

\* the invocation that starts at a is over
RunIsOver(a) == RunEnd(a) < Len(trace) \/ pc \in {"idle", "returned", "thrown"}

\* the same call, whatever its result
SameCall(c, d) ==
    /\ c.op = d.op
    /\ c.eventId = d.eventId
    /\ c.subscriptionId = d.subscriptionId
    /\ c.status = d.status

\* two runs made the same calls with the same results up to their n-th call
AgreeUpTo(A, B, n) == \A j \in 1..n : A[j] = B[j]

ShorterLen(A, B) == IF Len(A) <= Len(B) THEN Len(A) ELSE Len(B)

\* the record of a pair is the one its last successful write put
RecordsAreLastWrites ==
    \A n \in notificationsTable :
        /\ WritesTo(n.eventId, n.subscriptionId) # {}
        /\ \E j \in WritesTo(n.eventId, n.subscriptionId) :
              /\ \A k \in WritesTo(n.eventId, n.subscriptionId) : k <= j
              /\ n.status = trace[j].status
              /\ n.attemptedAt = j - 1
        /\ n.channel = subscriptionsTable[n.subscriptionId].channel
        /\ n.target = subscriptionsTable[n.subscriptionId].target

\* C23: the first attempt on a batch, which starts with no NotificationRecord,
\* and a redelivery of it, which starts with the records of the attempts
\* before, make the same calls as long as their calls have the same results:
\* the same transport invocations and the same writes, and they end at the
\* same call; the records in the store are those of the last writes.
C23_SameOnRedelivery ==
    /\ \A a, b \in RunStarts : a < b =>
          LET A == Run(a)
              B == Run(b)
          IN  /\ \A k \in 1..ShorterLen(A, B) :
                    AgreeUpTo(A, B, k - 1) => SameCall(A[k], B[k])
              /\ AgreeUpTo(A, B, ShorterLen(A, B)) =>
                    /\ Len(B) <= Len(A)
                    /\ RunIsOver(b) => Len(A) = Len(B)
    /\ RecordsAreLastWrites

\* C23, its case: a redelivery that started with a SENT record in the store has
\* ended after the same calls, a transport invocation among them, as the
\* first attempt.
C23_Witness ==
    /\ Len(attempts) >= 1
    /\ \E a, b \in RunStarts :
          /\ a = 1
          /\ a < b
          /\ RunIsOver(b)
          /\ Run(a) = Run(b)
          /\ \E k \in 1..Len(Run(a)) :
                /\ Run(a)[k].op \in TransportOps
                /\ Run(a)[k].result = "ok"
                /\ k < Len(Run(a))
                /\ Run(a)[k + 1].op = "PutNotification"
                /\ Run(a)[k + 1].result = "ok"

====
